---- MODULE Spec2Model ----
(***************************************************************************)
(* A model of the NYT Digits puzzle (nytdigits.py, class DigitsPuzzle) and *)
(* of the generic breadth-first solver (puzzlesolver.py, PuzzleSolver).    *)
(*                                                                         *)
(* Python lists are objects with identity: a puzzle object holds a         *)
(* reference to its list of sources, list.remove() changes the list in     *)
(* place and "self.sources = sorted(...)" binds a new list.  The model     *)
(* keeps that heap ("lists", indexed by list id), so that sharing of a     *)
(* list between two puzzle objects is something a state can show.          *)
(***************************************************************************)
EXTENDS Integers, Sequences, FiniteSets, Bags, TLC

\* ------------------------------------------------------------------ bounds
\* Puzzles are constructed with up to MaxLen sources of value up to MaxVal.
MaxLen == 3
MaxVal == 2

\* The source values a caller constructs a puzzle with: the positive ones
\* and two non-positive ones.
SourceInputs == {0 - 1} \cup (0..MaxVal)

\* The targets of the puzzles handed to the solver, and the target of the
\* puzzles a caller of the puzzle class constructs.
Targets == {2, 4, 6}

ConstructTargets == {6}

\* The operators of a move: operator.add, .sub, .mul, .floordiv.
Ops == <<"add", "sub", "mul", "floordiv">>

OpSet == {Ops[i] : i \in DOMAIN Ops}

\* ------------------------------------------------------- forced_operand
\* forced_operand is None, the sentinel CHAINMODE, or an integer.
NoneFO == [kind |-> "None", v |-> 0]

CHAINMODE == [kind |-> "CHAINMODE", v |-> 0]

IntV(x) == [kind |-> "int", v |-> x]

\* Python truth value of a forced_operand ("if self.forced_operand:").
Truthy(fo) == fo.kind = "CHAINMODE" \/ (fo.kind = "int" /\ fo.v # 0)

\* "self.forced_operand in self.sources": == against each element; None and
\* the sentinel object are equal to no integer.
InSources(fo, s) == fo.kind = "int" /\ \E i \in DOMAIN s : s[i] = fo.v

\* --------------------------------------------------------- list helpers
RECURSIVE InsertDesc(_, _)
\* x inserted into the descending sequence s, after the elements >= x.
InsertDesc(s, x) ==
  IF s = <<>> THEN <<x>>
  ELSE IF Head(s) >= x THEN <<Head(s)>> \o InsertDesc(Tail(s), x)
  ELSE <<x>> \o s

RECURSIVE SortedReverse(_)
\* sorted(s, reverse=True): a new list, descending.
SortedReverse(s) ==
  IF s = <<>> THEN <<>>
  ELSE InsertDesc(SortedReverse(SubSeq(s, 1, Len(s) - 1)), s[Len(s)])

\* Index of the first element of s equal to x, 0 when there is none.
IndexOf(s, x) ==
  IF \E i \in DOMAIN s : s[i] = x
  THEN CHOOSE i \in DOMAIN s : s[i] = x /\ \A j \in 1..(i - 1) : s[j] # x
  ELSE 0

\* The element at index i left where it is.
DropAt_kept(s, i) == s

\* s without its element at index i.
DropAt(s, i) == SubSeq(s, 1, i - 1) \o SubSeq(s, i + 1, Len(s))

\* Every occurrence of x removed, not only the first.
ListRemove_all(s, x) ==
  IF IndexOf(s, x) = 0 THEN [exc |-> "ValueError", list |-> s]
  ELSE [exc |-> "None", list |-> SelectSeq(s, LAMBDA y : y # x)]

\* list.remove(x): the list without the first occurrence of x; raises
\* ValueError when x is not in the list.
ListRemove(s, x) ==
  IF IndexOf(s, x) = 0 THEN [exc |-> "ValueError", list |-> s]
  ELSE [exc |-> "None", list |-> DropAt(s, IndexOf(s, x))]

\* op(a, b) for the four operators (floordiv of positive integers).
ApplyOp(op, a, b) ==
  CASE op = "add" -> a + b
    [] op = "sub" -> a - b
    [] op = "mul" -> a * b
    [] op = "floordiv" -> a \div b

\* --------------------------------------------------------- puzzle values
\* What a puzzle object holds, its list dereferenced.
Value(lists, self) ==
  [target |-> self.target,
   sources |-> lists[self.sources],
   forced_operand |-> self.forced_operand]

\* DigitsPuzzle.endstate
endstate(p) == \E i \in DOMAIN p.sources : p.sources[i] = p.target

\* A summary that leaves the forced operand out: tuple(self.sources).
canonicalstate_sources(p) == [i \in 1..Len(p.sources) |-> IntV(p.sources[i])]

\* DigitsPuzzle.canonicalstate: tuple(self.sources + [self.forced_operand]),
\* one flat tuple whose last element is the forced operand.
canonicalstate(p) ==
  [i \in 1..(Len(p.sources) + 1) |->
     IF i <= Len(p.sources) THEN IntV(p.sources[i]) ELSE p.forced_operand]

RECURSIVE combinations2(_)
\* itertools.combinations(s, 2): the pairs (s[i], s[j]), i < j, in
\* lexicographic order of (i, j).
combinations2(s) ==
  IF Len(s) < 2 THEN <<>>
  ELSE [j \in 1..(Len(s) - 1) |-> <<s[1], s[j + 1]>>] \o combinations2(Tail(s))

\* filter(lambda x: x != f, g): every occurrence of f is dropped.
filter_out(s, f) == SelectSeq(s, LAMBDA x : x # f)

\* takewhile(lambda x: x != f, g) chained with the rest of g: the iterator
\* g loses the element that stops takewhile, so the first f is dropped.
takewhile_chain(s, f) ==
  IF IndexOf(s, f) = 0 THEN s ELSE DropAt(s, IndexOf(s, f))

\* DigitsPuzzle._sourcecombos
sourcecombos(p) ==
  IF InSources(p.forced_operand, p.sources)
  THEN LET rest == takewhile_chain(p.sources, p.forced_operand.v)
       IN [i \in 1..Len(rest) |-> <<p.forced_operand.v, rest[i]>>]
  ELSE combinations2(p.sources)

\* The moves of one operator, subtraction let through when a >= b.
movesof_sub_ge(op, pairs) ==
  LET keep(ab) ==
        CASE op = "add" -> TRUE
          [] op = "sub" -> ab[1] >= ab[2]
          [] op = "mul" -> ab[2] # 1
          [] op = "floordiv" -> (ab[1] % ab[2]) = 0 /\ ab[2] # 1
      kept == SelectSeq(pairs, keep)
  IN [i \in 1..Len(kept) |-> <<op, kept[i]>>]

\* The moves of one operator, multiplication by 1 let through.
movesof_mul_any(op, pairs) ==
  LET keep(ab) ==
        CASE op = "add" -> TRUE
          [] op = "sub" -> ab[1] > ab[2]
          [] op = "mul" -> TRUE
          [] op = "floordiv" -> (ab[1] % ab[2]) = 0 /\ ab[2] # 1
      kept == SelectSeq(pairs, keep)
  IN [i \in 1..Len(kept) |-> <<op, kept[i]>>]

\* The moves of one operator: the pairs that pass its filter.
movesof(op, pairs) ==
  LET keep(ab) ==
        CASE op = "add" -> TRUE
          [] op = "sub" -> ab[1] > ab[2]
          [] op = "mul" -> ab[2] # 1
          [] op = "floordiv" -> (ab[1] % ab[2]) = 0 /\ ab[2] # 1
      kept == SelectSeq(pairs, keep)
  IN [i \in 1..Len(kept) |-> <<op, kept[i]>>]

\* DigitsPuzzle.legalmoves: the moves (op, (a, b)) in the order yielded.
legalmoves(p) ==
  movesof("add", sourcecombos(p)) \o movesof("sub", sourcecombos(p))
    \o movesof("mul", sourcecombos(p)) \o movesof("floordiv", sourcecombos(p))

\* ----------------------------------------------------- puzzle objects
\* A puzzle object: target, forced_operand and the id of its sources list.
\* The methods take the heap of lists and return the heap after the call,
\* the object after the call and the exception raised ("None": returned).

\* The constructor with the sanity check "< 0": a zero source gets through.
DigitsPuzzle_zero_ok(lists, target, sources, forced_operand) ==
  LET srt == SortedReverse(sources)
      self == [target |-> target,
               forced_operand |-> forced_operand,
               sources |-> Len(lists) + 1]
  IN [exc |-> IF srt = <<>> THEN "IndexError"
              ELSE IF srt[Len(srt)] < 0 THEN "ValueError" ELSE "None",
      lists |-> Append(lists, srt),
      self |-> self]

\* DigitsPuzzle.__init__
DigitsPuzzle(lists, target, sources, forced_operand) ==
  LET srt == SortedReverse(sources)
      self == [target |-> target,
               forced_operand |-> forced_operand,
               sources |-> Len(lists) + 1]
  IN [exc |-> IF srt = <<>> THEN "IndexError"
              ELSE IF srt[Len(srt)] <= 0 THEN "ValueError" ELSE "None",
      lists |-> Append(lists, srt),
      self |-> self]

\* chainmode that only ever switches chain mode on.
chainmode_on_only(self, v) ==
  IF v THEN [self EXCEPT !.forced_operand = CHAINMODE] ELSE self

\* DigitsPuzzle.chainmode
chainmode(self, v) ==
  [self EXCEPT !.forced_operand = IF v THEN CHAINMODE ELSE NoneFO]

\* copy.copy(self): a second reference to the same list of sources.
clone_shallow(lists, self) == [exc |-> "None", lists |-> lists, self |-> self]

\* DigitsPuzzle.clone
clone(lists, self) ==
  DigitsPuzzle(lists, self.target, lists[self.sources], self.forced_operand)

\* The result forced only while the chain is pending.
nextforced_pending(fo, rslt) == IF fo = CHAINMODE THEN IntV(rslt) ELSE fo

\* The forced_operand a move with result rslt leaves ("if
\* self.forced_operand: self.forced_operand = rslt").
nextforced(fo, rslt) == IF Truthy(fo) THEN IntV(rslt) ELSE fo

\* A result of zero let into the puzzle.
nonpositive_zero_ok(rslt) == rslt < 0

\* "if rslt <= 0: raise ValueError": zero and negative results are not
\* allowed into the puzzle.
nonpositive(rslt) == rslt <= 0

\* DigitsPuzzle.move: the operands are removed from the list in place, one
\* after the other, before the result is looked at; a raise leaves the list
\* as it is by then.
move(lists, self, m) ==
  LET op == m[1]
      a == m[2][1]
      b == m[2][2]
      r1 == ListRemove(lists[self.sources], a)
      r2 == ListRemove(r1.list, b)
      rslt == ApplyOp(op, a, b)
  IN IF r1.exc # "None"
     THEN [exc |-> r1.exc, lists |-> lists, self |-> self]
     ELSE IF r2.exc # "None"
     THEN [exc |-> r2.exc,
           lists |-> [lists EXCEPT ![self.sources] = r1.list],
           self |-> self]
     ELSE IF nonpositive(rslt)
     THEN [exc |-> "ValueError",
           lists |-> [lists EXCEPT ![self.sources] = r2.list],
           self |-> self]
     ELSE [exc |-> "None",
           lists |-> Append([lists EXCEPT ![self.sources] = r2.list],
                            SortedReverse(Append(r2.list, rslt))),
           self |-> [self EXCEPT
                       !.forced_operand = nextforced(self.forced_operand, rslt),
                       !.sources = Len(lists) + 1]]

\* DigitsPuzzle.copy_and_move: self.clone().move(m)
copy_and_move(lists, self, m) ==
  LET c == clone(lists, self)
  IN IF c.exc # "None" THEN c ELSE move(c.lists, c.self, m)

\* ---------------------------------------------------------------- state
\* objs:  the puzzle objects a caller holds: "d", the puzzle it constructed,
\*        and "r", the puzzle the latest copy_and_move returned.
\* lists: the heap of source lists, indexed by list id.
\* last:  the record of the latest call (see Called).
VARIABLES objs, lists, last

pvars == <<objs, lists, last>>

\* ------------------------------------------------------------ the solver
\* One PuzzleSolver object and the solve() call it is in.
\* pc:         "idle" (no call yet), "pop" (at the head of the for
\*             self._iterations loop), "moves" (inside for move in
\*             z.legalmoves()), "done" (solve returned), "raised"
\* puzzle, n:  the arguments of the call
\* statetrail, q, z, movetrail: the locals of _solve; pending is what the
\*             generator z.legalmoves() has still to yield
\* count:      the next value of itertools.count(1)
\* maxq, iterations: the attributes _maxq and _iterations (0: not set,
\*             what stats reports for a missing attribute)
\* solutions:  the local of solve; result: what solve returned
\* enq, dequeued, qpeak: history of the call: the canonical state of every
\*             puzzle placed on q, the number of entries popped, the
\*             largest length q had
VARIABLES pc, puzzle, n, statetrail, q, z, movetrail, pending, count,
          maxq, iterations, solutions, result, enq, dequeued, qpeak

svars == <<pc, puzzle, n, statetrail, q, z, movetrail, pending, count,
           maxq, iterations, solutions, result, enq, dequeued, qpeak>>

vars == <<objs, lists, last, pc, puzzle, n, statetrail, q, z, movetrail,
          pending, count, maxq, iterations, solutions, result, enq,
          dequeued, qpeak>>

ObjNames == {"d", "r"}

\* No object: a null reference.
Absent == [target |-> 0, forced_operand |-> NoneFO, sources |-> 0]

Present(o) == objs[o].sources # 0

NoValue == [target |-> 0, sources |-> <<>>, forced_operand |-> NoneFO]

NoMove == <<"none", <<0, 0>>>>

\* The value of object o in a heap (NoValue for a null reference).
ValueOf(ls, os, o) == IF os[o].sources = 0 THEN NoValue ELSE Value(ls, os[o])

\* Reference counting: a list no object refers to is freed.  The lists that
\* are left are numbered in the order d, r.
Collect(os, ls) ==
  LET dP == os["d"].sources # 0
      rP == os["r"].sources # 0
      shared == dP /\ rP /\ os["d"].sources = os["r"].sources
      dId == IF dP THEN 1 ELSE 0
      rId == IF ~rP THEN 0 ELSE IF shared THEN dId ELSE dId + 1
  IN [objs |-> [os EXCEPT !["d"].sources = dId, !["r"].sources = rId],
      lists |-> (IF dP THEN <<ls[os["d"].sources]>> ELSE <<>>)
                  \o (IF rP /\ ~shared THEN <<ls[os["r"].sources]>> ELSE <<>>)]

\* The source lists a caller may hand to the constructor.
SourceLists == UNION {[1..k -> SourceInputs] : k \in 0..MaxLen}

\* The forced_operand arguments of the constructor for these sources: None,
\* CHAINMODE, or a value f with "f in sources".
ForcedInputs(srcs) ==
  {NoneFO, CHAINMODE} \cup {IntV(srcs[i]) : i \in DOMAIN srcs}

Range(s) == {s[i] : i \in DOMAIN s}

\* The value of a puzzle constructed from valid arguments.
Constructed(target, srcs, fo) ==
  LET c == DigitsPuzzle(<<>>, target, srcs, fo) IN Value(c.lists, c.self)

\* Constructor arguments of nytdigitstests.py with up to three sources
\* (test1..test4), and the puzzles test5 and test6 hold after their first
\* move, divide (14, 2), with the forced operand 7 that move leaves.
TestArgs ==
  {<<10, <<3, 7>>, NoneFO>>,
   <<10, <<3, 14, 2>>, NoneFO>>,
   <<10, <<3, 7, 13>>, IntV(7)>>,
   <<10, <<3, 7, 7>>, IntV(7)>>}

\* The four-source puzzles of test5, test6 and test7, four-source puzzles
\* whose shortest solution has two moves, and one with a forced operand
\* whose solutions pass through sources that other forcings reach as well.
DeepArgs ==
  {<<20, <<1, 2, 3, 4>>, IntV(1)>>} \cup
  {<<10, <<3, 14, 2, 13>>, NoneFO>>,
   <<10, <<3, 14, 2, 13>>, CHAINMODE>>,
   <<10, <<3, 14, 2, 7>>, CHAINMODE>>,
   <<6, <<1, 1, 2, 2>>, NoneFO>>,
   <<6, <<1, 1, 2, 2>>, CHAINMODE>>,
   <<5, <<1, 2, 2, 2>>, NoneFO>>}

\* Constructor arguments: every list of up to MaxLen sources, with each
\* target of ts and each forced_operand.
ArgsFor(ts) ==
  UNION {{<<t, srcs, fo>> : t \in ts, fo \in ForcedInputs(srcs)} :
           srcs \in SourceLists}

\* The constructor arguments the caller of the puzzle class tries.
ConstructArgs == ArgsFor(ConstructTargets) \cup TestArgs

\* The moves a caller may apply to a puzzle: the legal ones, and hand-built
\* ones over the values present and one value (0) that never is.
MoveInputs(p) ==
  Range(legalmoves(p))
    \cup {<<op, <<a, b>>>> : op \in OpSet,
                             a \in Range(p.sources) \cup {0},
                             b \in Range(p.sources) \cup {0}}

\* The record of a call.  srcs: the sources handed to the constructor.
\* m, pre: the move handed to copy_and_move and the receiver's value before
\* it.  legal, rslt, truthy: of a move applied, whether legalmoves() of the
\* receiver offered it, the value op(a, b) it put into the sources (0: it
\* raised), and the truth value of the receiver's forced_operand before.
\* v: the argument handed to chainmode.
Called(op, srcs, m, pre, exc, legal, rslt, truthy, v) ==
  [op |-> op, srcs |-> srcs, m |-> m, pre |-> pre, exc |-> exc,
   legal |-> legal, rslt |-> rslt, truthy |-> truthy, v |-> v]

NoCall ==
  Called("none", <<>>, NoMove, NoValue, "None", FALSE, 0, FALSE, FALSE)

PInit ==
  /\ objs = [o \in ObjNames |-> Absent]
  /\ lists = <<>>
  /\ last = NoCall

\* d = DigitsPuzzle(target, *srcs, forced_operand=fo), the first call the
\* caller makes; when it raises, d is not bound and the caller is done.
Construct(target, srcs, fo) ==
  /\ ~Present("d")
  /\ last = NoCall
  /\ LET c == DigitsPuzzle(lists, target, srcs, fo)
         os == IF c.exc = "None" THEN [objs EXCEPT !["d"] = c.self] ELSE objs
         g == Collect(os, c.lists)
     IN /\ objs' = g.objs
        /\ lists' = g.lists
        /\ last' = [NoCall EXCEPT !.op = "construct", !.srcs = srcs,
                                  !.exc = c.exc]
  /\ UNCHANGED svars

\* r = DigitsPuzzle(target, *srcs, forced_operand=fo): a second puzzle,
\* constructed independently of d.
ConstructOther(target, srcs, fo) ==
  /\ Present("d")
  /\ ~Present("r")
  /\ LET c == DigitsPuzzle(lists, target, srcs, fo)
         os == IF c.exc = "None" THEN [objs EXCEPT !["r"] = c.self] ELSE objs
         g == Collect(os, c.lists)
     IN /\ objs' = g.objs
        /\ lists' = g.lists
        /\ last' = [NoCall EXCEPT !.op = "construct_other", !.srcs = srcs,
                                  !.exc = c.exc]
  /\ UNCHANGED svars

\* A caller that holds a copy r drops it before it goes on with d: from the
\* return of copy_and_move on, d and r are two separate puzzles.
InPlaceAllowed == Present("d") /\ ~Present("r")

\* d.chainmode(v)
ChainMode(v) ==
  /\ InPlaceAllowed
  /\ objs' = [objs EXCEPT !["d"] = chainmode(objs["d"], v)]
  /\ lists' = lists
  /\ last' = [NoCall EXCEPT !.op = "chainmode",
                            !.truthy = Truthy(objs["d"].forced_operand),
                            !.v = v]
  /\ UNCHANGED svars

\* What a call that applies m to a puzzle of value p leaves in the record.
Applied(op, p, m, exc, legal) ==
  [NoCall EXCEPT !.op = op,
                 !.exc = exc,
                 !.legal = m \in legal,
                 !.rslt = IF exc = "None" THEN ApplyOp(m[1], m[2][1], m[2][2])
                          ELSE 0,
                 !.truthy = Truthy(p.forced_operand)]

\* d.move(m), in place
Move(m, legal) ==
  /\ InPlaceAllowed
  /\ LET c == move(lists, objs["d"], m)
         g == Collect([objs EXCEPT !["d"] = c.self], c.lists)
     IN /\ objs' = g.objs
        /\ lists' = g.lists
        /\ last' = Applied("move", ValueOf(lists, objs, "d"), m, c.exc, legal)
  /\ UNCHANGED svars

\* r = d.copy_and_move(m); on a raise r is not bound
CopyAndMove(m, legal) ==
  /\ InPlaceAllowed
  /\ LET c == copy_and_move(lists, objs["d"], m)
         os == IF c.exc = "None" THEN [objs EXCEPT !["r"] = c.self] ELSE objs
         g == Collect(os, c.lists)
     IN /\ objs' = g.objs
        /\ lists' = g.lists
        /\ last' = [Applied("copy_and_move", ValueOf(lists, objs, "d"), m, c.exc, legal)
                      EXCEPT !.m = m, !.pre = ValueOf(lists, objs, "d")]
  /\ UNCHANGED svars

\* del r
Drop ==
  /\ Present("r")
  /\ LET g == Collect([objs EXCEPT !["r"] = Absent], lists)
     IN /\ objs' = g.objs
        /\ lists' = g.lists
        /\ last' = [NoCall EXCEPT !.op = "del"]
  /\ UNCHANGED svars

Next ==
  \/ /\ ~Present("d")
     /\ \E a \in ConstructArgs : Construct(a[1], a[2], a[3])
  \/ \E v \in BOOLEAN : ChainMode(v)
  \/ /\ InPlaceAllowed
     /\ LET legal == Range(legalmoves(ValueOf(lists, objs, "d")))
        IN \E m \in MoveInputs(ValueOf(lists, objs, "d")) : Move(m, legal)
  \/ /\ InPlaceAllowed
     /\ LET legal == Range(legalmoves(ValueOf(lists, objs, "d")))
        IN \E m \in MoveInputs(ValueOf(lists, objs, "d")) : CopyAndMove(m, legal)
  \/ Drop

\* ------------------------------------------------------ solver inputs
\* The puzzles handed to solve().
Seeds ==
  {Constructed(a[1], a[2], a[3]) :
     a \in {x \in ArgsFor(Targets) \cup TestArgs \cup DeepArgs :
              DigitsPuzzle(<<>>, x[1], x[2], x[3]).exc = "None"}}

\* The n a caller asks for.
MaxN == 2

NoResult == [kind |-> "none", v |-> <<>>]

Max(a, b) == IF a >= b THEN a ELSE b

SInit ==
  /\ pc = "idle"
  /\ puzzle = NoValue
  /\ n = 0
  /\ statetrail = {}
  /\ q = <<>>
  /\ z = NoValue
  /\ movetrail = <<>>
  /\ pending = <<>>
  /\ count = 1
  /\ maxq = 0
  /\ iterations = 0
  /\ solutions = <<>>
  /\ result = NoResult
  /\ enq = <<>>
  /\ dequeued = 0
  /\ qpeak = 0

\* solve(p, k), k >= 1, is called on a new PuzzleSolver and runs up to the
\* first next(g), which enters the body of the generator _solve: lines
\* 112-115.
Solve(p, k) ==
  /\ pc = "idle"
  /\ puzzle' = p
  /\ n' = k
  /\ solutions' = <<>>
  /\ z' = NoValue
  /\ movetrail' = <<>>
  /\ pending' = <<>>
  /\ count' = 1
  /\ dequeued' = 0
  /\ pc' = "pop"
  /\ result' = NoResult
  /\ statetrail' = {canonicalstate(p)}
  /\ maxq' = 0
  /\ q' = <<[z |-> p, trail |-> <<>>]>>
  /\ enq' = <<canonicalstate(p)>>
  /\ qpeak' = 1
  /\ UNCHANGED iterations
  /\ UNCHANGED pvars

\* One pass through the head of "for self._iterations in itertools.count(1)":
\* q.pop(0), or the return on IndexError, which ends the generator and with
\* it solve (lines 116-121, 146-148).
\* q.pop(): the newest entry instead of the oldest.
qpop_last(s) == [item |-> s[Len(s)], rest |-> SubSeq(s, 1, Len(s) - 1)]

qpop(s) == [item |-> Head(s), rest |-> Tail(s)]

Dequeue ==
  /\ pc = "pop"
  /\ iterations' = count
  /\ count' = count + 1
  /\ IF q = <<>>
     THEN /\ pc' = "done"
          /\ result' = [kind |-> "list", v |-> solutions]
          /\ UNCHANGED <<q, z, movetrail, pending, dequeued>>
     ELSE /\ q' = qpop(q).rest
          /\ z' = qpop(q).item.z
          /\ movetrail' = qpop(q).item.trail
          /\ pending' = legalmoves(qpop(q).item.z)
          /\ dequeued' = dequeued + 1
          /\ pc' = IF legalmoves(qpop(q).item.z) = <<>> THEN "pop" ELSE "moves"
          /\ UNCHANGED result
  /\ UNCHANGED <<puzzle, n, statetrail, maxq, solutions, enq, qpeak>>
  /\ UNCHANGED pvars

\* The trail handed on without the move.
trail_without_move(trail, mv) == trail

\* movetrail + [move]
newtrail(trail, mv) == Append(trail, mv)

\* The set of visited states left as it is.
statetrail_keep(seen, st) == seen

\* statetrail.add(z2state)
statetrail_add(seen, st) == seen \cup {st}

\* What the body of "for move in z.legalmoves()" does with one move
\* (lines 124-132): the copy, whether it is new, whether it is yielded.
visit(zz, trail, mv, seen) ==
  LET c == copy_and_move(<<zz.sources>>,
                         [target |-> zz.target,
                          forced_operand |-> zz.forced_operand,
                          sources |-> 1], mv)
      z2 == Value(c.lists, c.self)
      z2state == canonicalstate(z2)
  IN IF c.exc # "None"
     THEN [exc |-> c.exc, fresh |-> FALSE, yield |-> FALSE, z2 |-> zz,
           z2state |-> <<>>, trail |-> trail,
           z |-> Value(c.lists, [c.self EXCEPT !.sources = 1])]
     ELSE [exc |-> "None",
           fresh |-> z2state \notin seen,
           yield |-> z2state \notin seen /\ endstate(z2),
           z2 |-> z2,
           z2state |-> z2state,
           trail |-> newtrail(trail, mv),
           z |-> Value(c.lists, [c.self EXCEPT !.sources = 1])]

\* One iteration of "for move in z.legalmoves()", and what solve does with a
\* solution the generator yields (lines 139-148).
Step ==
  /\ pc = "moves"
  /\ LET v == visit(z, movetrail, Head(pending), statetrail)
         more == IF Tail(pending) = <<>> THEN "pop" ELSE "moves"
     IN /\ z' = v.z
        /\ pending' = Tail(pending)
        /\ IF v.exc # "None"
           THEN /\ pc' = "raised"
                /\ UNCHANGED <<statetrail, q, maxq, solutions, result, enq, qpeak>>
           ELSE IF ~v.fresh
           THEN /\ pc' = more
                /\ UNCHANGED <<statetrail, q, maxq, solutions, result, enq, qpeak>>
           ELSE IF v.yield
           THEN /\ IF n = 1
                   THEN /\ pc' = "done"
                        /\ result' = [kind |-> "solution", v |-> v.trail]
                        /\ UNCHANGED solutions
                   ELSE /\ solutions' = Append(solutions, v.trail)
                        /\ IF Len(solutions) + 1 = n
                           THEN /\ pc' = "done"
                                /\ result' = [kind |-> "list",
                                              v |-> Append(solutions, v.trail)]
                           ELSE /\ pc' = more
                                /\ UNCHANGED result
                /\ UNCHANGED <<statetrail, q, maxq, enq, qpeak>>
           ELSE /\ statetrail' = statetrail_add(statetrail, v.z2state)
                /\ q' = Append(q, [z |-> v.z2, trail |-> v.trail])
                /\ maxq' = Max(maxq, Len(q) + 1)
                /\ enq' = Append(enq, v.z2state)
                /\ qpeak' = Max(qpeak, Len(q) + 1)
                /\ pc' = more
                /\ UNCHANGED <<solutions, result>>
  /\ UNCHANGED <<puzzle, n, movetrail, count, iterations, dequeued>>
  /\ UNCHANGED pvars

SolveNext ==
  \/ /\ pc = "idle"
     /\ \E p \in Seeds, k \in 1..MaxN : Solve(p, k)
  \/ Dequeue
  \/ Step

\* The arguments of the second puzzle: positive sources, each target.
OtherArgs ==
  {a \in ArgsFor(Targets) : \A i \in DOMAIN a[2] : a[2][i] > 0}

\* A caller that constructs two puzzles.
CanonNext ==
  \/ /\ ~Present("d")
     /\ \E a \in ConstructArgs : Construct(a[1], a[2], a[3])
  \/ /\ Present("d")
     /\ \E a \in OtherArgs : ConstructOther(a[1], a[2], a[3])
  \/ Drop

Init == PInit /\ SInit

\* The puzzle class, driven by a caller.
Spec == Init /\ [][Next]_vars

\* The solver, on the puzzles of Seeds.
SolveSpec == Init /\ [][SolveNext]_vars

\* Two puzzles constructed independently of each other.
CanonSpec == Init /\ [][CanonNext]_vars

\* ------------------------------------------------- the solver's results
\* The puzzle p.copy_and_move(m) returns, as a value, and what it raised.
Child(p, m) ==
  LET c == copy_and_move(<<p.sources>>,
                         [target |-> p.target,
                          forced_operand |-> p.forced_operand,
                          sources |-> 1], m)
  IN [exc |-> c.exc, p |-> Value(c.lists, c.self)]

RECURSIVE SolutionLengths(_)
\* The lengths of all sequences of one or more legal moves that lead from p
\* to an end state (each move takes one source away, so they are finite).
SolutionLengths(p) ==
  UNION {LET c == Child(p, m).p
         IN (IF endstate(c) THEN {1} ELSE {})
              \cup {k + 1 : k \in SolutionLengths(c)} :
         m \in Range(legalmoves(p))}

RECURSIVE Solvable(_)
\* One or more legal moves lead from p to an end state.
Solvable(p) ==
  \E m \in Range(legalmoves(p)) :
    endstate(Child(p, m).p) \/ Solvable(Child(p, m).p)

RECURSIVE Replay(_, _)
\* The moves of trail applied one after another with copy_and_move.
Replay(p, trail) ==
  IF trail = <<>> THEN [exc |-> "None", p |-> p]
  ELSE LET c == Child(p, Head(trail))
       IN IF c.exc # "None" THEN c ELSE Replay(c.p, Tail(trail))

\* The move sequences a finished solve() handed back.
Returned ==
  IF result.kind = "solution" THEN {result.v}
  ELSE IF result.kind = "list" THEN Range(result.v)
  ELSE {}

\* C1: when the initial state is no end state and an end state can be
\* reached by legal moves, solve(puzzle) returns a move sequence whose length
\* is the least length of any sequence of legal moves that reaches an end
\* state.
C1_MinimalLength ==
  (pc = "done" /\ n = 1 /\ ~endstate(puzzle)) =>
    LET lengths == SolutionLengths(puzzle)
    IN lengths # {} =>
         /\ result.kind = "solution"
         /\ Len(result.v) \in lengths
         /\ \A k \in lengths : Len(result.v) <= k

\* solve() returned a two-move solution of a four-source puzzle that also
\* has longer solutions.
C1_Witness ==
  /\ pc = "done" /\ n = 1 /\ result.kind = "solution"
  /\ Len(puzzle.sources) = 4
  /\ Len(result.v) = 2
  /\ \E k \in SolutionLengths(puzzle) : k > 2

\* C2: every move sequence solve(puzzle, n) returns is a real solution: its
\* moves applied one after another with copy_and_move, from the initial
\* puzzle, never raise, and the final state holds the target in its sources.
C2_RealSolutions ==
  pc = "done" =>
    \A t \in Returned :
      LET final == Replay(puzzle, t)
      IN final.exc = "None" /\ endstate(final.p)

\* solve(puzzle, 2) returned two solutions, one of them of two moves.
C2_Witness ==
  /\ pc = "done" /\ n = 2 /\ result.kind = "list"
  /\ Len(result.v) = 2
  /\ \E i \in DOMAIN result.v : Len(result.v[i]) = 2

\* C3: the search is complete: when an end state can be reached by one or
\* more legal moves, solve returns a solution; when none can, solve returns
\* the empty list; and it never raises.
C3_Complete ==
  /\ pc # "raised"
  /\ pc = "done" =>
       IF Solvable(puzzle)
       THEN /\ Returned # {}
            /\ n = 1 => result.kind = "solution"
       ELSE result = [kind |-> "list", v |-> <<>>]

\* solve() went through a queue of several puzzles, found no end state and
\* returned the empty list.
C3_Witness ==
  /\ pc = "done" /\ n = 1
  /\ result = [kind |-> "list", v |-> <<>>]
  /\ qpeak >= 2
  /\ dequeued = Len(enq)

\* C10: during one solve() call no canonical state is placed on the queue
\* twice: the canonical states of all puzzles ever enqueued, the seed
\* included, differ from one another.
C10_NoStateTwice ==
  \A i, j \in DOMAIN enq : i < j => enq[i] # enq[j]

\* The solver is about to try a move that leads to a canonical state already
\* placed on the queue earlier in this call, by another order of moves.
C10_Witness ==
  /\ pc = "moves"
  /\ Len(enq) >= 2
  /\ LET v == visit(z, movetrail, Head(pending), statetrail)
     IN /\ v.exc = "None"
        /\ \E i \in DOMAIN enq : enq[i] = v.z2state

\* ------------------------------------------------- the puzzle class
\* The puzzles the caller holds, as values.
D == ValueOf(lists, objs, "d")

R == ValueOf(lists, objs, "r")

\* The number of positions of seq that hold x.
Count(seq, x) == Cardinality({i \in DOMAIN seq : seq[i] = x})

Min(a, b) == IF a <= b THEN a ELSE b

\* The position pairs i < j of s whose values, the larger first, are (a, b).
PairsAt(s, a, b) ==
  {ij \in (DOMAIN s) \X (DOMAIN s) :
     /\ ij[1] < ij[2]
     /\ Max(s[ij[1]], s[ij[2]]) = a
     /\ Min(s[ij[1]], s[ij[2]]) = b}

\* C4: copy_and_move(m) never mutates its receiver, for every move m, legal
\* or not, whether the call returns or raises: target, sources and
\* forced_operand of the receiver are what they were before the call; and
\* the puzzle returned shares no list with the receiver: a move on either
\* leaves the other as it is.
C4_ReceiverUnchanged ==
  /\ last.op = "copy_and_move" => D = last.pre
  /\ (Present("d") /\ Present("r")) =>
       /\ objs["d"].sources # objs["r"].sources
       /\ \A m \in Range(legalmoves(R)) :
            Value(move(lists, objs["r"], m).lists, objs["d"]) = D
       /\ \A m \in Range(legalmoves(D)) :
            Value(move(lists, objs["d"], m).lists, objs["r"]) = R

\* copy_and_move returned a puzzle that differs from its receiver.
C4_Witness ==
  /\ last.op = "copy_and_move" /\ last.exc = "None"
  /\ Present("r")
  /\ R.sources # D.sources
  /\ D = last.pre

\* C5: every move legalmoves() offers in a reachable state is valid:
\* applying it never raises, and all sources of every reachable state are
\* strictly positive, whatever the forced operand is.
C5_LegalMovesValid ==
  /\ \A i \in DOMAIN D.sources : D.sources[i] > 0
  /\ \A i \in DOMAIN R.sources : R.sources[i] > 0
  /\ last.legal => last.exc = "None"
  /\ Present("d") =>
       \A m \in Range(legalmoves(D)) : Child(D, m).exc = "None"

\* A move legalmoves() offered was applied in place to a puzzle with a
\* forced operand, and left a puzzle that offers moves again.
C5_Witness ==
  /\ last.op = "move" /\ last.legal /\ last.exc = "None"
  /\ last.truthy
  /\ Len(D.sources) >= 2
  /\ legalmoves(D) # <<>>

\* What the claim lets through for the pair (a, b) of one operator.
Allowed(op, a, b) ==
  CASE op = "add" -> TRUE
    [] op = "sub" -> a > b
    [] op = "mul" -> b # 1
    [] op = "floordiv" -> a % b = 0 /\ b # 1

Rank(op) == CHOOSE i \in DOMAIN Ops : Ops[i] = op

\* C6: with no forced operand active, legalmoves() yields exactly the moves
\* over the 2-combinations (a, b) of the sources with a >= b: add always,
\* subtract when a > b, multiply when b # 1, divide when b divides a and
\* b # 1, once for each combination; in the order adds, subtracts,
\* multiplies, divides; sources (7, 3) give 3 moves and (14, 3, 2) give 10.
C6_UnforcedMoves ==
  (Present("d") /\ D.forced_operand.kind # "int") =>
    LET s == D.sources
        lm == legalmoves(D)
    IN /\ \A i \in DOMAIN lm :
            /\ lm[i][1] \in OpSet
            /\ lm[i][2][1] \in Range(s) /\ lm[i][2][2] \in Range(s)
            /\ lm[i][2][1] >= lm[i][2][2]
       /\ \A op \in OpSet, a \in Range(s), b \in Range(s) :
            Count(lm, <<op, <<a, b>>>>) =
              IF Allowed(op, a, b) THEN Cardinality(PairsAt(s, a, b)) ELSE 0
       /\ \A i, j \in DOMAIN lm : i < j => Rank(lm[i][1]) <= Rank(lm[j][1])
       /\ s = <<7, 3>> => Len(lm) = 3
       /\ s = <<14, 3, 2>> => Len(lm) = 10

\* The puzzle of test4, sources 3, 14, 2 and no forced operand, with its
\* ten moves.
C6_Witness ==
  /\ Present("d")
  /\ D.forced_operand = NoneFO
  /\ D.sources = <<14, 3, 2>>
  /\ Len(legalmoves(D)) = 10

\* C7: with a forced operand f that is in the sources, the operand pairs are
\* (f, b) for each b of the sources less one occurrence of f: f is the
\* first operand of every pair, there are len(sources) - 1 pairs, and every
\* other occurrence of f is a second operand (sources 7, 7, 3 and f = 7
\* give the pair (7, 7) once).
C7_ForcedPairs ==
  (Present("d") /\ InSources(D.forced_operand, D.sources)) =>
    LET s == D.sources
        f == D.forced_operand.v
        sc == sourcecombos(D)
        seconds == [i \in DOMAIN sc |-> sc[i][2]]
    IN /\ Len(sc) = Len(s) - 1
       /\ \A i \in DOMAIN sc : sc[i][1] = f
       /\ \A x \in Range(s) :
            Count(seconds, x) = Count(s, x) - (IF x = f THEN 1 ELSE 0)
       /\ (s = <<7, 7, 3>> /\ f = 7) => Count(sc, <<7, 7>>) = 1

\* The puzzle test6 holds after its first move: two sevens, 7 forced.
C7_Witness ==
  /\ Present("d")
  /\ D.forced_operand = IntV(7)
  /\ D.sources = <<7, 7, 3>>
  /\ sourcecombos(D) = <<<<7, 7>>, <<7, 3>>>>

\* C8: in chain mode, while the chain is pending the pairs are all
\* 2-combinations of the sources; after each move the forced operand is
\* that move's result, and every move legalmoves() offers then has that
\* result as its first operand.
C8_ChainMode ==
  /\ (Present("d") /\ D.forced_operand = CHAINMODE) =>
       /\ 2 * Len(sourcecombos(D)) = Len(D.sources) * (Len(D.sources) - 1)
       /\ \A a \in Range(D.sources), b \in Range(D.sources) :
            Count(sourcecombos(D), <<a, b>>) =
              IF a >= b THEN Cardinality(PairsAt(D.sources, a, b)) ELSE 0
  /\ (last.op = "move" /\ last.exc = "None" /\ last.truthy) =>
       /\ D.forced_operand = IntV(last.rslt)
       /\ \A m \in Range(legalmoves(D)) : m[2][1] = last.rslt
  /\ (last.op = "copy_and_move" /\ last.exc = "None" /\ last.truthy) =>
       /\ R.forced_operand = IntV(last.rslt)
       /\ \A m \in Range(legalmoves(R)) : m[2][1] = last.rslt

\* A move made while an earlier move's result was forced: its own result is
\* forced now, and moves are offered with it.
C8_Witness ==
  /\ last.op = "move" /\ last.exc = "None" /\ last.truthy
  /\ D.forced_operand = IntV(last.rslt)
  /\ Len(D.sources) = 2
  /\ legalmoves(D) # <<>>
  /\ \A m \in Range(legalmoves(D)) : m[2][1] = last.rslt

\* C9: canonicalstate() is equal for two puzzles exactly when they have the
\* same target, the same multiset of sources and the same forced operand.
C9_CanonicalIff ==
  (Present("d") /\ Present("r")) =>
    ((canonicalstate(D) = canonicalstate(R))
       <=> /\ D.target = R.target
           /\ \A x \in Range(D.sources) \cup Range(R.sources) :
                Count(D.sources, x) = Count(R.sources, x)
           /\ D.forced_operand = R.forced_operand)

\* ------------------------------------------ the solver's results, continued
\* The canonical state a returned move sequence ends in.
EndStateOf(t) == canonicalstate(Replay(puzzle, t).p)

\* C11: an end state found is recorded as visited, so that within one
\* solve(puzzle, n) call with n > 1 no two returned solutions end in the
\* same canonical state.
C11_DistinctEndStates ==
  (pc = "done" /\ n > 1 /\ result.kind = "list") =>
    \A i, j \in DOMAIN result.v :
      i < j => EndStateOf(result.v[i]) # EndStateOf(result.v[j])

\* None, the value the class docstring names for "no solution".
PyNone == [kind |-> "None", v |-> <<>>]

\* C12: solve(puzzle) with n = 1 returns one move sequence when a solution
\* exists and None when the search space is exhausted without one.
C12_NoneWhenExhausted ==
  (pc = "done" /\ n = 1) =>
    IF Solvable(puzzle) THEN result.kind = "solution" ELSE result = PyNone

\* ------------------------------------------- the puzzle class, continued
\* C13: constructing a DigitsPuzzle with a source that is zero or negative
\* raises at once, wherever that value stands among the sources and
\* whatever the other arguments are; no puzzle holds a non-positive source.
C13_NonPositiveRaises ==
  /\ (last.op = "construct"
        /\ \E i \in DOMAIN last.srcs : last.srcs[i] <= 0) =>
       /\ last.exc = "ValueError"
       /\ ~Present("d")
  /\ \A o \in ObjNames :
       \A i \in DOMAIN ValueOf(lists, objs, o).sources :
         ValueOf(lists, objs, o).sources[i] > 0

\* A construction raised for a non-positive source handed over between two
\* positive ones.
C13_Witness ==
  /\ last.op = "construct" /\ last.exc = "ValueError"
  /\ ~Present("d")
  /\ Len(last.srcs) = 3
  /\ last.srcs[1] > 0 /\ last.srcs[2] <= 0 /\ last.srcs[3] > 0

\* a and b can be removed from s as two separate occurrences.
Removable(s, a, b) ==
  IF a = b THEN Count(s, a) >= 2 ELSE Count(s, a) >= 1 /\ Count(s, b) >= 1

\* The move m must be refused on sources s.
MustRaise(s, m) ==
  \/ ~Removable(s, m[2][1], m[2][2])
  \/ ApplyOp(m[1], m[2][1], m[2][2]) <= 0

\* C14: a hand-built move (op, (a, b)) applied with move() or
\* copy_and_move() raises whenever a and b cannot each be removed from the
\* sources as separate occurrences, or op(a, b) <= 0; no successor state is
\* returned then.
C14_IllegalMoveRaises ==
  /\ (last.op = "copy_and_move" /\ MustRaise(last.pre.sources, last.m)) =>
       /\ last.exc # "None"
       /\ ~Present("r")
  /\ Present("d") =>
       \A m \in MoveInputs(D) :
         MustRaise(D.sources, m) => move(lists, objs["d"], m).exc # "None"

\* copy_and_move raised for a move whose two operands are the same value,
\* present once in the sources.
C14_Witness ==
  /\ last.op = "copy_and_move" /\ last.exc = "ValueError"
  /\ ~Present("r")
  /\ last.m[2][1] = last.m[2][2]
  /\ Count(last.pre.sources, last.m[2][1]) = 1

\* C15: the moves of one legalmoves() call are deduplicated: no
\* (operator, operand pair) is emitted more than once, also when the sources
\* hold repeated values.
C15_NoMoveTwice ==
  Present("d") =>
    \A i, j \in DOMAIN legalmoves(D) :
      i < j => legalmoves(D)[i] # legalmoves(D)[j]

\* What a successful move m makes of the puzzle pre.
MoveEffect(pre, m, post) ==
  LET a == m[2][1]
      b == m[2][2]
      r == ApplyOp(m[1], a, b)
  IN /\ Len(post.sources) = Len(pre.sources) - 1
     /\ \A x \in Range(pre.sources) \cup Range(post.sources) \cup {r} :
          Count(post.sources, x) =
            Count(pre.sources, x) - (IF x = a THEN 1 ELSE 0)
              - (IF x = b THEN 1 ELSE 0) + (IF x = r THEN 1 ELSE 0)
     /\ post.target = pre.target
     /\ pre.forced_operand = NoneFO => post.forced_operand = NoneFO

\* C17: a successful move (op, (a, b)) takes exactly one occurrence of a and
\* one of b out of the sources and puts op(a, b) in: one source fewer, every
\* other value with its multiplicity, the target as it was, and
\* forced_operand as it was when it was unset.
C17_MoveEffect ==
  /\ (last.op = "copy_and_move" /\ last.exc = "None") =>
       MoveEffect(last.pre, last.m, R)
  /\ Present("d") =>
       \A m \in MoveInputs(D) :
         LET c == move(lists, objs["d"], m)
         IN c.exc = "None" => MoveEffect(D, m, Value(c.lists, c.self))

\* copy_and_move used one of two equal sources; the other one is still
\* there.
C17_Witness ==
  /\ last.op = "copy_and_move" /\ last.exc = "None"
  /\ Present("r")
  /\ Count(last.pre.sources, last.m[2][1]) = 2
  /\ last.m[2][1] # last.m[2][2]
  /\ Count(R.sources, last.m[2][1]) >= 1

\* C16: when the puzzle handed to solve() is an end state already, solve
\* reports the solution of no moves, not a longer sequence.
C16_ZeroMoveSolution ==
  (pc = "done" /\ n = 1 /\ endstate(puzzle)) =>
    result = [kind |-> "solution", v |-> <<>>]

\* Every queued puzzle has lost one source for each move of its trail, and
\* no trail, queued or handed back, has more than len(sources) - 1 moves.
TrailBound ==
  pc # "idle" =>
    /\ \A i \in DOMAIN q :
         /\ Len(q[i].trail) + Len(q[i].z.sources) = Len(puzzle.sources)
         /\ Len(q[i].trail) <= Len(puzzle.sources) - 1
    /\ \A i \in DOMAIN solutions :
         Len(solutions[i]) <= Len(puzzle.sources) - 1
    /\ \A t \in Returned : Len(t) <= Len(puzzle.sources) - 1

RECURSIVE SearchBound(_)
\* A bound on the loop steps the search below a puzzle of k sources takes:
\* one pop, and for each of its at most 4 * k * (k - 1) / 2 moves one pass
\* of the inner loop and the search below a puzzle of k - 1 sources.
SearchBound(k) ==
  IF k < 2 THEN 1 ELSE 1 + 2 * k * (k - 1) * (1 + SearchBound(k - 1))

RECURSIVE QueueWork(_)
QueueWork(s) ==
  IF s = <<>> THEN 0
  ELSE SearchBound(Len(Head(s).z.sources)) + QueueWork(Tail(s))

\* A bound on the loop steps the call has still to take.
WorkLeft ==
  QueueWork(q) + Len(pending) * (1 + SearchBound(Len(z.sources) - 1))

\* A call that has not returned can take its next step.
CanStep == pc # "raised" /\ (pc = "moves" => pending # <<>>)

\* Every step of a call that does not return makes WorkLeft smaller.
Progress ==
  (pc \in {"pop", "moves"} /\ pc' # "done") => WorkLeft' < WorkLeft

\* C18: solve() terminates on every Digits puzzle: each move shortens the
\* sources by one, so every trail has at most len(sources) - 1 moves; a
\* call that has not returned can always step, and every step that does not
\* return lowers a natural-number bound on the steps left, so the queue
\* empties or the solutions asked for are found first.
C18_Terminates ==
  /\ [](TrailBound /\ CanStep /\ WorkLeft >= 0)
  /\ [][Progress]_vars

\* solve() of a four-source puzzle returned after its queue, which had held
\* trails of three moves, had emptied.
C18_Witness ==
  /\ pc = "done"
  /\ Len(puzzle.sources) = 4
  /\ q = <<>>
  /\ result.kind = "list"
  /\ Len(movetrail) = 3

\* C19: solve(puzzle, n) with n > 1 returns a list of at most n solutions
\* in the order the search found them, their lengths non-decreasing; it
\* holds fewer than n only when the search space was exhausted, and is
\* empty when there is no solution.
C19_ListOfSolutions ==
  (pc = "done" /\ n > 1) =>
    /\ result.kind = "list"
    /\ result.v = solutions
    /\ Len(result.v) <= n
    /\ \A i, j \in DOMAIN result.v :
         i < j => Len(result.v[i]) <= Len(result.v[j])
    /\ Len(result.v) < n => (q = <<>> /\ pending = <<>>)
    /\ ~Solvable(puzzle) => result.v = <<>>

\* solve(puzzle, 2) returned two solutions of different lengths, the
\* shorter one first.
C19_Witness ==
  /\ pc = "done" /\ n = 2 /\ result.kind = "list"
  /\ Len(result.v) = 2
  /\ Len(result.v[1]) < Len(result.v[2])

\* C20: after a solve() call stats.iterations is the number of entries
\* dequeued from the queue during that call, when a solution was returned
\* and when the queue was exhausted.
C20_IterationsAreDequeues ==
  pc = "done" => iterations = dequeued

\* C21: after a solve() call stats.maxq is the largest number of entries
\* the queue q held at any moment of that call, the moment it holds only
\* the seed puzzle included.
C21_MaxqIsPeak ==
  pc = "done" => maxq = qpeak

\* Puzzles p and c offer the same legal moves in the same order, have the
\* same canonical state, and every legal move takes both to the same puzzle.
SameBehaviour(p, c) ==
  /\ p = c
  /\ legalmoves(p) = legalmoves(c)
  /\ canonicalstate(p) = canonicalstate(c)
  /\ \A m \in Range(legalmoves(p)) : Child(p, m) = Child(c, m)

\* What one call d.chainmode(v) did: the forcing mode is chain-pending for
\* a true v and unset for a false one, and target and sources are as before.
ChainModeSets ==
  /\ D'.forced_operand = (IF last'.v THEN CHAINMODE ELSE NoneFO)
  /\ D'.target = D.target
  /\ D'.sources = D.sources
  /\ objs'["d"].sources = objs["d"].sources

\* C22: chainmode(True) leaves the puzzle chain-pending and chainmode(False)
\* leaves it unset, whatever the forcing mode was before, with target and
\* sources unchanged; an unforced puzzle switched with chainmode(True) is
\* from then on the puzzle the constructor builds from the same target and
\* sources with forced_operand=CHAINMODE: same legal moves, same canonical
\* state, same successors.
C22_ChainModeSwitch ==
  [][last'.op = "chainmode" =>
       /\ ChainModeSets
       /\ (last'.v /\ D.forced_operand = NoneFO /\ D.sources # <<>>) =>
            SameBehaviour(D', Constructed(D.target, D.sources, CHAINMODE))]_vars

\* chainmode(True) was called on an unforced puzzle of three sources, and
\* chainmode(False) on a puzzle forced to a value.
C22_Witness ==
  /\ last.op = "chainmode"
  /\ Len(D.sources) = 3
  /\ \/ last.v /\ ~last.truthy /\ D.forced_operand = CHAINMODE
     \/ ~last.v /\ last.truthy /\ D.forced_operand = NoneFO

\* forced_operand of p is unset, the chain-pending sentinel, or a value that
\* is among the sources of p.
ForcedPresent(p) ==
  \/ p.forced_operand = NoneFO
  \/ p.forced_operand = CHAINMODE
  \/ InSources(p.forced_operand, p.sources)

\* A legal move on a puzzle pre with ForcedPresent returned the puzzle post.
LegalMoveKeeps(pre, post) ==
  ForcedPresent(pre) =>
    /\ last'.exc = "None"
    /\ ForcedPresent(post)
    /\ pre.forced_operand = NoneFO => post.forced_operand = NoneFO

\* C23: a puzzle constructed unforced, chain-pending or forced to one of its
\* sources has a forced_operand that is unset, the sentinel or among its
\* sources, and every legal move, in place or on a copy, from a puzzle of
\* which this holds leads to a puzzle of which it holds; an unset
\* forced_operand is unset after the move.
C23_ForcedInSources ==
  /\ []((last.op = "construct" /\ last.exc = "None") => ForcedPresent(D))
  /\ [][/\ (last'.op = "move" /\ last'.legal) => LegalMoveKeeps(D, D')
        /\ (last'.op = "copy_and_move" /\ last'.legal) => LegalMoveKeeps(D, R')
       ]_vars

\* A legal move in place left a puzzle of two sources forced to the value
\* the move produced.
C23_Witness ==
  /\ last.op = "move" /\ last.legal /\ last.exc = "None"
  /\ Len(D.sources) = 2
  /\ D.forced_operand = IntV(last.rslt)
  /\ InSources(D.forced_operand, D.sources)

\* C24: an in-place move() that raises leaves the puzzle as it was: its
\* target, sources and forced_operand after the call are those before it.
C24_FailedMoveNoEffect ==
  [][(last'.op = "move" /\ last'.exc # "None") => D' = D]_vars

====
